---- MODULE Spec2Model ----
(***************************************************************************)
(* Model of scripts/audit_s3_datasets.py: audit_dataset (paginated listing *)
(* fold), check_standardization (folder-name heuristics) and main (the     *)
(* per-dataset loop and the summary document).                             *)
(*                                                                         *)
(* Strings are sequences of one-character strings, so that substring      *)
(* search, str.replace, str.split, str.lower and pathlib's suffix are      *)
(* computed the way Python computes them.  Dicts and Counters are          *)
(* sequences of [k, v] records in insertion order.  Sizes in gigabytes     *)
(* rounded to two decimals are integers counting hundredths.               *)
(***************************************************************************)
EXTENDS Integers, Sequences, FiniteSets, TLC

VARIABLES
    datasets,          \* main: the configured list of prefixes
    bucket,            \* environment: per dataset, the page responses of the paginator
    pc,                \* control point
    di,                \* main: index of the dataset of the for loop
    page_no,           \* audit_dataset: index of the page of the paginator
    obj_no,            \* audit_dataset: index of the object in page['Contents']
    total_files,       \* audit_dataset locals (lines 20-24)
    total_size,
    file_extensions,
    folder_structure,
    sample_files,
    audit_result,      \* main: the value audit_dataset returned
    issues,            \* main: the value check_standardization returned
    all_audits,
    all_issues,
    out                \* the document written to s3_dataset_audit.json

vars == <<datasets, bucket, pc, di, page_no, obj_no, total_files, total_size,
          file_extensions, folder_structure, sample_files, audit_result,
          issues, all_audits, all_issues, out>>

None == [none |-> TRUE]

----------------------------------------------------------------------------
(* Bounds of the model *)

NumDatasets == 2       \* datasets of the main loop in Spec
PageSize == 2          \* objects per page of a listing
MaxSpecial == 3        \* keys of the special pool in one listing of SpecAudit
MaxFill == 11          \* longest run of plain filler keys in one listing
MaxTrainChain == 9     \* numbered train folders offered to check_standardization
MaxJunkChain == 7      \* one-letter junk folders offered to check_standardization

(* Program constants *)

SampleLimit == 10      \* len(sample_files) < 10
FolderLimit == 10      \* len(folders) > 10
ListedLimit == 5       \* non_standard[:5]

----------------------------------------------------------------------------
(* Python string operations on sequences of characters *)

UpperChars == <<"A","B","C","D","E","F","G","H","I","J","K","L","M",
                "N","O","P","Q","R","S","T","U","V","W","X","Y","Z">>
LowerChars == <<"a","b","c","d","e","f","g","h","i","j","k","l","m",
                "n","o","p","q","r","s","t","u","v","w","x","y","z">>

UpperSet == {UpperChars[i] : i \in 1..Len(UpperChars)}

LowerOf == [c \in UpperSet |-> LowerChars[CHOOSE i \in 1..Len(UpperChars) : UpperChars[i] = c]]

LowerChar(c) == IF c \in UpperSet THEN LowerOf[c] ELSE c

\* str.lower()
Lower(s) == [i \in 1..Len(s) |-> LowerChar(s[i])]

\* str.find(t): the first index (1-based) where t occurs in s, 0 when none
Find(s, t) ==
    LET hits == {i \in 1..(Len(s) - Len(t) + 1) : SubSeq(s, i, i + Len(t) - 1) = t}
    IN IF hits = {} THEN 0 ELSE CHOOSE i \in hits : \A j \in hits : i <= j

\* t in s
In(t, s) == \E i \in 1..(Len(s) - Len(t) + 1) : SubSeq(s, i, i + Len(t) - 1) = t

\* s.replace(old, new, 1): only the first occurrence is replaced
ReplaceFirst(s, old, new) ==
    LET i == Find(s, old)
    IN IF i = 0 THEN s
       ELSE SubSeq(s, 1, i - 1) \o new \o SubSeq(s, i + Len(old), Len(s))

\* s.split(sep) for a one-character separator: the pieces between the
\* separators, empty pieces included
Split(s, sep) ==
    LET at == {i \in 1..Len(s) : s[i] = sep}
        Cut(j) == IF j = 0 THEN 0
                  ELSE IF j > Cardinality(at) THEN Len(s) + 1
                  ELSE CHOOSE i \in at : Cardinality({h \in at : h < i}) = j - 1
    IN [j \in 1..(Cardinality(at) + 1) |-> SubSeq(s, Cut(j - 1) + 1, Cut(j) - 1)]

\* str.rfind("."): the last index of a dot, 0 when none
RFindDot(s) ==
    LET hits == {i \in 1..Len(s) : s[i] = "."}
    IN IF hits = {} THEN 0 ELSE CHOOSE i \in hits : \A j \in hits : j <= i

\* PurePath.name: the last path component; empty and "." components are dropped
IsComponent(seg) == seg # <<>> /\ seg # <<".">>

PathName(key) ==
    LET parts == SelectSeq(Split(key, "/"), IsComponent)
    IN IF parts = <<>> THEN <<>> ELSE parts[Len(parts)]

\* variant: the text from the last dot on, wherever the dot is
SuffixAnyDot(key) ==
    LET name == PathName(key)
        i == RFindDot(name)
    IN IF i > 0 THEN SubSeq(name, i, Len(name)) ELSE <<>>

\* PurePath.suffix: name[i:] where i is the last dot, unless the dot is the
\* first or the last character of the name (pathlib before Python 3.14; from
\* 3.14 on a trailing dot is a suffix of its own)
Suffix(key) ==
    LET name == PathName(key)
        i == RFindDot(name)
    IN IF 1 < i /\ i < Len(name) THEN SubSeq(name, i, Len(name)) ELSE <<>>

----------------------------------------------------------------------------
(* dict / Counter / defaultdict(int) as sequences of [k, v] in insertion order *)

Keys(d) == [i \in 1..Len(d) |-> d[i].k]

HasKey(d, key) == \E i \in 1..Len(d) : d[i].k = key

\* d[key] += 1
Inc(d, key) ==
    IF HasKey(d, key)
    THEN [i \in 1..Len(d) |-> IF d[i].k = key THEN [k |-> key, v |-> d[i].v + 1] ELSE d[i]]
    ELSE Append(d, [k |-> key, v |-> 1])

RECURSIVE SumValues(_)
SumValues(d) == IF d = <<>> THEN 0 ELSE Head(d).v + SumValues(Tail(d))

----------------------------------------------------------------------------
(* audit_dataset: the body of the loop over one page's objects *)

Slash == <<"/">>

\* variant: only prefix + "/" is skipped
IsMarkerSlashOnly(key, prefix) == key = prefix \o Slash

\* line 37: the key is the prefix itself or the prefix followed by "/"
IsMarker(key, prefix) == key = prefix \/ key = prefix \o Slash

\* line 44: Path(key).suffix.lower()
Extension(key) == Lower(Suffix(key))

\* lines 45-46
CountExtension(fe, key) ==
    IF Extension(key) # <<>> THEN Inc(fe, Extension(key)) ELSE fe

\* line 49: key.replace(prefix + '/', '', 1)
RelativePath(key, prefix) == ReplaceFirst(key, prefix \o Slash, <<>>)

\* lines 50-52
CountFolder(fs, key, prefix) ==
    LET parts == Split(RelativePath(key, prefix), "/")
    IN IF Len(parts) > 1 THEN Inc(fs, parts[1]) ELSE fs

\* variant: once 10 keys are held, a new key pushes the oldest one out
CollectSampleLatest(samples, key) ==
    IF Len(samples) < SampleLimit THEN Append(samples, key)
    ELSE Append(Tail(samples), key)

\* lines 55-56
CollectSample(samples, key) ==
    IF Len(samples) < SampleLimit THEN Append(samples, key) ELSE samples

\* variant: the size is not added
AddSizeNothing(total, size) == total

\* line 41
AddSize(total, size) == total + size

\* lines 33-56: one iteration of the loop over page['Contents']
AuditObject(acc, obj, prefix) ==
    IF IsMarker(obj.Key, prefix)
    THEN acc
    ELSE [total_files      |-> acc.total_files + 1,
          total_size       |-> AddSize(acc.total_size, obj.Size),
          file_extensions  |-> CountExtension(acc.file_extensions, obj.Key),
          folder_structure |-> CountFolder(acc.folder_structure, obj.Key, prefix),
          sample_files     |-> CollectSample(acc.sample_files, obj.Key)]

\* line 82: round(total_size / (1024**3), 2), in hundredths of a gigabyte.
\* The quotient is exact in binary floating point, so round() rounds the true
\* value, ties to the even hundredth.  total * 100 / 2^30 = total * 25 / 2^28,
\* computed in pieces that stay below 2^31.
P24 == 2^24
P27 == 2^27
P28 == 2^28

RoundGB(total) ==
    LET a == total \div P28
        b == total % P28
        c == b \div P24
        d == b % P24
        e == 25 * c + ((25 * d) \div P24)
        f == (25 * d) % P24
        floor == 25 * a + (e \div 16)
        rem == (e % 16) * P24 + f
    IN IF rem > P27 \/ (rem = P27 /\ floor % 2 = 1) THEN floor + 1 ELSE floor

\* lines 79-86: the returned dict
Result(prefix, files, size, folders, extensions, samples) ==
    [dataset       |-> prefix,
     total_files   |-> files,
     total_size_gb |-> RoundGB(size),
     folders       |-> folders,
     extensions    |-> extensions,
     samples       |-> SubSeq(samples, 1, IF Len(samples) < SampleLimit
                                          THEN Len(samples) ELSE SampleLimit)]

----------------------------------------------------------------------------
(* check_standardization *)

TRAIN == <<"t","r","a","i","n">>
TEST == <<"t","e","s","t">>
REAL == <<"r","e","a","l">>
FAKE == <<"f","a","k","e">>
VAL == <<"v","a","l">>
METADATA == <<"m","e","t","a","d","a","t","a">>
ANNOTATION == <<"a","n","n","o","t","a","t","i","o","n">>

\* line 122: the recognised tokens
Patterns == {TRAIN, TEST, REAL, FAKE, VAL, METADATA, ANNOTATION}

\* variant: the folder name must be the token
HasExact(names, token) == \E i \in 1..Len(names) : Lower(names[i]) = token

\* lines 103-106: any(token in f.lower() for f in folders.keys())
Has(names, token) == \E i \in 1..Len(names) : In(token, Lower(names[i]))

\* line 122: no recognised token occurs in folder.lower()
IsNonStandard(folder) == \A pattern \in Patterns : ~In(pattern, Lower(folder))

\* lines 120-123: the non-standard folder names, in dict order
RECURSIVE NonStandard(_)
NonStandard(names) ==
    IF names = <<>> THEN <<>>
    ELSE (IF IsNonStandard(Head(names)) THEN <<Head(names)>> ELSE <<>>)
         \o NonStandard(Tail(names))

\* variant: every non-standard name is listed
FirstListedAll(ns) == ns

\* line 126: non_standard[:5]
FirstListed(ns) == SubSeq(ns, 1, IF Len(ns) < ListedLimit THEN Len(ns) ELSE ListedLimit)

Issue(kind, n, names) == [kind |-> kind, n |-> n, names |-> names]

\* variant: 10 folders are already too many
TooManyAtLimit(names) == Len(names) >= FolderLimit

\* line 116: len(folders) > 10
TooMany(names) == Len(names) > FolderLimit

\* lines 110-111
TrainTestIssue(names) ==
    IF ~Has(names, TRAIN) /\ ~Has(names, TEST)
    THEN <<Issue("missing_train_test", 0, <<>>)>> ELSE <<>>

\* lines 113-114
RealFakeIssue(names) ==
    IF ~Has(names, REAL) /\ ~Has(names, FAKE)
    THEN <<Issue("missing_real_fake", 0, <<>>)>> ELSE <<>>

\* lines 116-117
TooManyIssue(names) ==
    IF TooMany(names) THEN <<Issue("too_many_folders", Len(names), <<>>)>> ELSE <<>>

\* lines 120-126
NonStandardIssue(names) ==
    IF NonStandard(names) # <<>>
    THEN <<Issue("non_standard_folders", 0, FirstListed(NonStandard(names)))>> ELSE <<>>

\* variant: the folder count is checked first
AssembleCountFirst(a, b, c, d) == c \o a \o b \o d

\* lines 108-128: the issues, appended in the order of the four checks
Assemble(a, b, c, d) == a \o b \o c \o d

\* lines 92-128
check_standardization(audit_results) ==
    LET folders == IF "folders" \in DOMAIN audit_results
                   THEN audit_results.folders ELSE <<>>
        names == Keys(folders)
    IN Assemble(TrainTestIssue(names), RealFakeIssue(names),
                TooManyIssue(names), NonStandardIssue(names))

----------------------------------------------------------------------------
(* The environment: what the paginator answers for a prefix *)

Obj(key, size) == [Key |-> key, Size |-> size]

ContentsPage(objs) == [kind |-> "contents", Contents |-> objs]
NoContentsPage == [kind |-> "nocontents", Contents |-> <<>>]   \* no 'Contents' key
RaisePage == [kind |-> "raise", Contents |-> <<>>]             \* fetching it raises

\* the listing's objects cut into pages of PageSize keys
RECURSIVE ContentPages(_)
ContentPages(objs) ==
    IF objs = <<>> THEN <<>>
    ELSE IF Len(objs) <= PageSize THEN <<ContentsPage(objs)>>
    ELSE <<ContentsPage(SubSeq(objs, 1, PageSize))>>
         \o ContentPages(SubSeq(objs, PageSize + 1, Len(objs)))

Front(q) == SubSeq(q, 1, Len(q) - 1)

\* The page sequences a prefix holding objs can answer with: the full listing
\* (one page without Contents when nothing matches), a failure on the first
\* request, a failure on the last request, and a listing whose last page has
\* lost its contents.
Listings(objs) ==
    LET pages == ContentPages(objs)
    IN { IF pages = <<>> THEN <<NoContentsPage>> ELSE pages,
         <<RaisePage>>,
         IF pages = <<>> THEN <<RaisePage>> ELSE Front(pages) \o <<RaisePage>>,
         pages \o <<NoContentsPage>> }

PrefixLetters == <<"p","q","r","s","u","w">>

\* the configured prefix of dataset i, "d/p", "d/q", ...
PrefixOf(i) == <<"d", "/", PrefixLetters[i]>>

Pick(seq, chosen) ==
    LET Chosen(i) == i \in chosen
    IN [j \in 1..Cardinality({i \in 1..Len(seq) : i \in chosen}) |->
          seq[CHOOSE i \in chosen :
                Cardinality({h \in chosen : h < i}) = j - 1]]

\* Keys of every shape the fold distinguishes, in the listing's (byte) order:
\* the two markers, a dot file, an upper-case extension, the prefix repeated
\* inside the key, a folder marker, a file in a folder, a trailing dot, a dot
\* in a folder name.  Sizes are chosen around the rounding points of a
\* hundredth of a gigabyte.
SpecialBelow(x) ==
    << Obj(x, 7),
       Obj(x \o <<"/">>, 0),
       Obj(x \o <<"/", ".", "h">>, 2^27),
       Obj(x \o <<"/", "a", ".", "J">>, 4294967),
       Obj(x \o <<"/">> \o x \o <<"/", "e">>, 1),
       Obj(x \o <<"/", "t", "/">>, 0),
       Obj(x \o <<"/", "t", "/", "b", ".", "j">>, 5368710),
       Obj(x \o <<"/", "t", "/", "c", ".">>, 3 * 2^27),
       Obj(x \o <<"/", "v", ".", "1", "/", "e">>, 2^30) >>

\* a key of a sibling prefix: it starts with the prefix, not with prefix + "/"
SpecialSibling(x) ==
    << Obj(x \o <<"2", "/", "t", "/", "b", ".", "j">>, 3) >>

FillChars == <<"0","1","2","3","4","5","6","7","8","9","A","B","C","D">>

\* k plain files of one byte in the folder z
Fill(x, k) == [i \in 1..k |-> Obj(x \o <<"/", "z", "/", FillChars[i]>>, 1)]

\* the object lists of SpecAudit: at most MaxSpecial special keys and a run of
\* filler keys, in byte order
RichObjs(x) ==
    LET nb == Len(SpecialBelow(x))
    IN { Pick(SpecialBelow(x), S) \o Fill(x, k)
           \o (IF nb + 1 \in S THEN SpecialSibling(x) ELSE <<>>) :
         S \in {T \in SUBSET (1..(nb + 1)) : Cardinality(T) <= MaxSpecial},
         k \in 0..MaxFill }

RichListings(x) == UNION {Listings(objs) : objs \in RichObjs(x)}

TRAIN_REAL == <<"t","r","a","i","n","_","r","e","a","l">>

\* the object lists of Spec, per dataset
MainObjs(x) ==
    LET marker == Obj(x \o <<"/">>, 0)
        flat == Obj(x \o <<"/", "a", ".", "J">>, 4294967)
        junk == Obj(x \o <<"/", "t", "/", "b", ".", "j">>, 5368710)
        std == Obj(x \o <<"/">> \o TRAIN_REAL \o <<"/", "c">>, 4294967)
    IN { <<>>, <<marker>>, <<flat>>, <<marker, junk>>, <<std>>, <<flat, junk, std>> }

MainListings(x) == UNION {Listings(objs) : objs \in MainObjs(x)}

----------------------------------------------------------------------------
(* Initial states *)

InitCommon ==
    /\ pc = "main"
    /\ di = 1
    /\ page_no = 0
    /\ obj_no = 0
    /\ total_files = 0
    /\ total_size = 0
    /\ file_extensions = <<>>
    /\ folder_structure = <<>>
    /\ sample_files = <<>>
    /\ audit_result = None
    /\ issues = <<>>
    /\ all_audits = <<>>       \* line 147
    /\ all_issues = <<>>       \* line 148
    /\ out = None

\* main over NumDatasets configured datasets
Init ==
    /\ datasets = [i \in 1..NumDatasets |-> PrefixOf(i)]
    /\ bucket \in {b \in [1..NumDatasets -> UNION {MainListings(PrefixOf(i)) : i \in 1..NumDatasets}] :
                     \A i \in 1..NumDatasets : b[i] \in MainListings(PrefixOf(i))}
    /\ InitCommon

\* main over one dataset whose listing is drawn from the rich pool
InitAudit ==
    /\ datasets = <<PrefixOf(1)>>
    /\ bucket \in {<<l>> : l \in RichListings(PrefixOf(1))}
    /\ InitCommon

---------------------------------------------------------------------------------------------------------------------------------------------------
(* audit_dataset *)

auditLocals == <<total_files, total_size, file_extensions, folder_structure, sample_files>>
mainVars == <<datasets, bucket, di, issues, all_audits, all_issues, out>>

Page == bucket[di][page_no]

\* lines 150-151 and 16-24: the for loop calls audit_dataset, which resets its counters
CallAudit ==
    /\ pc = "main"
    /\ di <= Len(datasets)
    /\ pc' = "paginate"
    /\ page_no' = 1
    /\ obj_no' = 0
    /\ total_files' = 0
    /\ total_size' = 0
    /\ file_extensions' = <<>>
    /\ folder_structure' = <<>>
    /\ sample_files' = <<>>
    /\ UNCHANGED <<datasets, bucket, di, audit_result, issues, all_audits, all_issues, out>>

\* variant: the exception leaves audit_dataset and main
PageRaisesPropagates ==
    /\ pc = "paginate"
    /\ page_no <= Len(bucket[di])
    /\ Page.kind = "raise"
    /\ pc' = "aborted"
    /\ UNCHANGED <<page_no, obj_no, auditLocals, audit_result, mainVars>>

\* lines 27, 88-90: the paginator raises while fetching the next page
PageRaises ==
    /\ pc = "paginate"
    /\ page_no <= Len(bucket[di])
    /\ Page.kind = "raise"
    /\ audit_result' = None
    /\ pc' = "returned"
    /\ UNCHANGED <<page_no, obj_no, auditLocals, mainVars>>

\* variant: the page is skipped and the loop goes on
PageNoContentsContinues ==
    /\ pc = "paginate"
    /\ page_no <= Len(bucket[di])
    /\ Page.kind = "nocontents"
    /\ page_no' = page_no + 1
    /\ UNCHANGED <<pc, obj_no, auditLocals, audit_result, mainVars>>

\* lines 28-30: a page without 'Contents'
PageNoContents ==
    /\ pc = "paginate"
    /\ page_no <= Len(bucket[di])
    /\ Page.kind = "nocontents"
    /\ audit_result' = None
    /\ pc' = "returned"
    /\ UNCHANGED <<page_no, obj_no, auditLocals, mainVars>>

\* lines 27-32: a page with 'Contents' is fetched, the loop over its objects starts
PageContents ==
    /\ pc = "paginate"
    /\ page_no <= Len(bucket[di])
    /\ Page.kind = "contents"
    /\ pc' = "objects"
    /\ obj_no' = 1
    /\ UNCHANGED <<page_no, auditLocals, audit_result, mainVars>>

\* lines 33-56: one object of the page; after the last one the next page is asked for
AuditKey ==
    /\ pc = "objects"
    /\ obj_no <= Len(Page.Contents)
    /\ LET acc == AuditObject(
                    [total_files      |-> total_files,
                     total_size       |-> total_size,
                     file_extensions  |-> file_extensions,
                     folder_structure |-> folder_structure,
                     sample_files     |-> sample_files],
                    Page.Contents[obj_no], datasets[di])
       IN /\ total_files' = acc.total_files
          /\ total_size' = acc.total_size
          /\ file_extensions' = acc.file_extensions
          /\ folder_structure' = acc.folder_structure
          /\ sample_files' = acc.sample_files
    /\ IF obj_no < Len(Page.Contents)
       THEN obj_no' = obj_no + 1 /\ UNCHANGED <<pc, page_no>>
       ELSE obj_no' = 0 /\ pc' = "paginate" /\ page_no' = page_no + 1
    /\ UNCHANGED <<audit_result, mainVars>>

\* lines 58-86: the paginator is exhausted, the result dict is returned
AuditReturns ==
    /\ pc = "paginate"
    /\ page_no > Len(bucket[di])
    /\ audit_result' = Result(datasets[di], total_files, total_size,
                              folder_structure, file_extensions, sample_files)
    /\ pc' = "returned"
    /\ UNCHANGED <<page_no, obj_no, auditLocals, mainVars>>

-----
(* main *)

\* if audit_result: a non-empty dict is true, None is false
Truthy(r) == r # None

\* variant: the issue entry is recorded whatever check_standardization returned
MainCollectAlways ==
    /\ pc = "returned"
    /\ Truthy(audit_result)
    /\ all_audits' = Append(all_audits, audit_result)
    /\ issues' = check_standardization(audit_result)
    /\ all_issues' = Append(all_issues, [dataset |-> datasets[di],
                                         issues |-> check_standardization(audit_result)])
    /\ di' = di + 1
    /\ pc' = "main"
    /\ UNCHANGED <<datasets, bucket, page_no, obj_no, auditLocals, audit_result, out>>

\* lines 152-161
MainCollect ==
    /\ pc = "returned"
    /\ Truthy(audit_result)
    /\ all_audits' = Append(all_audits, audit_result)
    /\ issues' = check_standardization(audit_result)
    /\ all_issues' = IF check_standardization(audit_result) # <<>>
                     THEN Append(all_issues, [dataset |-> datasets[di],
                                              issues |-> check_standardization(audit_result)])
                     ELSE all_issues
    /\ di' = di + 1
    /\ pc' = "main"
    /\ UNCHANGED <<datasets, bucket, page_no, obj_no, auditLocals, audit_result, out>>

\* line 152, audit_result is None: nothing is recorded
MainSkip ==
    /\ pc = "returned"
    /\ ~Truthy(audit_result)
    /\ di' = di + 1
    /\ pc' = "main"
    /\ UNCHANGED <<datasets, bucket, page_no, obj_no, auditLocals, audit_result, issues,
                   all_audits, all_issues, out>>

RECURSIVE SumField(_, _)
SumField(audits, field) ==
    IF audits = <<>> THEN 0 ELSE Head(audits)[field] + SumField(Tail(audits), field)

\* lines 170-197: the summary and the written document.  total_size_gb adds
\* the rounded per-dataset values (hundredths here, floats in the code)
Summary(audits) ==
    [total_datasets |-> Len(audits),
     total_files    |-> SumField(audits, "total_files"),
     total_size_gb  |-> SumField(audits, "total_size_gb")]

WriteOutput ==
    /\ pc = "main"
    /\ di > Len(datasets)
    /\ out' = [audits |-> all_audits, issues |-> all_issues, summary |-> Summary(all_audits)]
    /\ pc' = "done"
    /\ UNCHANGED <<datasets, bucket, di, page_no, obj_no, auditLocals, audit_result, issues,
                   all_audits, all_issues>>

Next ==
    \/ CallAudit
    \/ PageRaises
    \/ PageNoContents
    \/ PageContents
    \/ AuditKey
    \/ AuditReturns
    \/ MainCollect
    \/ MainSkip
    \/ WriteOutput

Spec == Init /\ [][Next]_vars

SpecAudit == InitAudit /\ [][Next]_vars

----------------------------------------------------------------------------
(* check_standardization on its own: the folder dicts it is applied to *)

TrainSuffixes == <<"1","2","3","4","5","6","7","8","9","A","B">>
JunkLetters == <<"a","b","c","d","g","h","j","k","m">>

\* "train", "train1", "train2", ...: the first k of them
TrainNames(k) == [i \in 1..k |-> IF i = 1 THEN TRAIN ELSE TRAIN \o <<TrainSuffixes[i - 1]>>]

\* "a", "b", ...: the first k one-letter folders
JunkNames(k) == [i \in 1..k |-> <<JunkLetters[i]>>]

NamesBefore ==
    << <<"A","n","n","o","t","a","t","i","o","n","s">>,
       <<"T","r","a","i","n">> >>

NamesBetween ==
    << <<"e","x","t","r","a","_","j","u","n","k">>,
       <<"f","a","k","e">>,
       <<"m","e","t","a","d","a","t","a">>,
       <<"r","e","t","r","a","i","n">>,
       <<"t","e","s","t">> >>

NamesAfter == << TRAIN_REAL, <<"v","a","l">> >>

ToDict(names) == [i \in 1..Len(names) |-> [k |-> names[i], v |-> 1]]

FolderDicts ==
    { ToDict(Pick(NamesBefore, A) \o JunkNames(kj) \o Pick(NamesBetween, B)
             \o TrainNames(kt) \o Pick(NamesAfter, C)) :
        A \in SUBSET (1..Len(NamesBefore)),
        B \in SUBSET (1..Len(NamesBetween)),
        C \in SUBSET (1..Len(NamesAfter)),
        kj \in 0..MaxJunkChain,
        kt \in 0..MaxTrainChain }

InitCheck ==
    /\ datasets = <<PrefixOf(1)>>
    /\ bucket = <<>>
    /\ pc = "check"
    /\ di = 1
    /\ page_no = 0
    /\ obj_no = 0
    /\ total_files = 0
    /\ total_size = 0
    /\ file_extensions = <<>>
    /\ folder_structure = <<>>
    /\ sample_files = <<>>
    /\ audit_result \in {[folders |-> d] : d \in FolderDicts}
    /\ issues = <<>>
    /\ all_audits = <<>>
    /\ all_issues = <<>>
    /\ out = None

\* line 156: issues = check_standardization(audit_result)
CheckStandardization ==
    /\ pc = "check"
    /\ issues' = check_standardization(audit_result)
    /\ pc' = "checked"
    /\ UNCHANGED <<datasets, bucket, di, page_no, obj_no, auditLocals, audit_result,
                   all_audits, all_issues, out>>

NextCheck == CheckStandardization

SpecCheck == InitCheck /\ [][NextCheck]_vars

----------------------------------------------------------------------------
(* What a listing holds, stated without the fold *)

RECURSIVE Flatten(_)
Flatten(pages) ==
    IF pages = <<>> THEN <<>> ELSE Head(pages).Contents \o Flatten(Tail(pages))

\* every object of every page of dataset i, in enumeration order
Listed(i) == Flatten(bucket[i])

\* the positions of Listed(i) whose key is neither the prefix nor prefix + "/"
Counted(i) ==
    {n \in 1..Len(Listed(i)) :
        /\ Listed(i)[n].Key # datasets[i]
        /\ Listed(i)[n].Key # datasets[i] \o <<"/">>}

RECURSIVE SizeOf(_, _)
SizeOf(objs, S) ==
    IF S = {} THEN 0
    ELSE LET n == CHOOSE m \in S : TRUE IN objs[n].Size + SizeOf(objs, S \ {n})

\* audit_dataset has just returned a dict for dataset di
Returned == pc = "returned" /\ audit_result # None

----------------------------------------------------------------------------
(* C1: when audit_dataset returns a result, total_files is the number of    *)
(* listed objects whose key is neither the prefix nor prefix + "/", and the *)
(* marker keys add to no counter: the byte total is the sum over the other  *)
(* objects, no sample is a marker, and the extension and folder counts stay *)
(* within the number of counted objects (all are zero when only markers are *)
(* listed).                                                                 *)
C1_MarkersNotCounted ==
    Returned =>
        LET n == Cardinality(Counted(di))
            x == datasets[di]
        IN /\ audit_result.total_files = n
           /\ total_size = SizeOf(Listed(di), Counted(di))
           /\ \A j \in 1..Len(audit_result.samples) :
                 audit_result.samples[j] \notin {x, x \o <<"/">>}
           /\ SumValues(audit_result.extensions) <= n
           /\ SumValues(audit_result.folders) <= n

\* a result over two or more pages that list a marker and other objects
C1_Witness ==
    /\ Returned
    /\ Len(bucket[di]) >= 2
    /\ Cardinality(Counted(di)) < Len(Listed(di))
    /\ audit_result.total_files >= 2

----------------------------------------------------------------------------
----------------------------------------------------------------------------
(* C9 *)

\* the key has a "." somewhere: text after the final "." of the key exists
KeyHasDot(key) == \E i \in 1..Len(key) : key[i] = "."

\* the last path component has a "." that is neither its first nor its last
\* character
NameHasExt(name) ==
    /\ name # <<>>
    /\ name[Len(name)] # "."
    /\ \E i \in 2..Len(name) : name[i] = "."

WithExt(i) == {n \in Counted(i) : NameHasExt(PathName(Listed(i)[n].Key))}

(* C9 as amended: the extension counts sum to the number of counted keys    *)
(* whose last path component has a "." that is neither its first nor its   *)
(* last character; so the sum is at most total_files, with equality iff     *)
(* every counted key is of that shape.  A key without such an extension is  *)
(* counted in total_files and in the byte total and in no extension bucket. *)
C9_ExtensionSum ==
    Returned =>
        /\ audit_result.total_files = Cardinality(Counted(di))
        /\ total_size = SizeOf(Listed(di), Counted(di))
        /\ SumValues(audit_result.extensions) = Cardinality(WithExt(di))
        /\ SumValues(audit_result.extensions) <= audit_result.total_files
        /\ (SumValues(audit_result.extensions) = audit_result.total_files
              <=> WithExt(di) = Counted(di))

\* C9 as claimed: equality iff every counted key contains a "."
C9_Original ==
    Returned =>
        /\ SumValues(audit_result.extensions) <= audit_result.total_files
        /\ (SumValues(audit_result.extensions) = audit_result.total_files
              <=> \A n \in Counted(di) : KeyHasDot(Listed(di)[n].Key))

\* a result over a key that has a dot and no extension, next to one that has
\* an extension
C9_Witness ==
    /\ Returned
    /\ \E n \in Counted(di) \ WithExt(di) : KeyHasDot(Listed(di)[n].Key)
    /\ WithExt(di) # {}
    /\ SumValues(audit_result.extensions) < audit_result.total_files

----------------------------------------------------------------------------
(* C10 *)

\* the key lies below prefix + "/"
Below(key, x) ==
    Len(key) > Len(x) /\ SubSeq(key, 1, Len(x) + 1) = x \o <<"/">>

\* the key lies in the top-level subfolder name of the prefix x
InSubfolder(key, x, name) ==
    /\ Below(key, x)
    /\ LET segs == Split(SubSeq(key, Len(x) + 2, Len(key)), "/")
       IN Len(segs) > 1 /\ segs[1] = name

(* C10 as claimed: every folder of the result is a top-level subfolder of   *)
(* the prefix, its count is the number of counted objects in that           *)
(* subfolder, and every counted object that lies in a subfolder is counted; *)
(* for every key the listing returns, also one that starts with the prefix  *)
(* and not with prefix + "/".                                               *)
C10_Original ==
    Returned =>
        LET x == datasets[di]
            L == Listed(di)
            f == audit_result.folders
        IN /\ \A j \in 1..Len(f) :
                 /\ f[j].v >= 1
                 /\ f[j].v = Cardinality({n \in Counted(di) : InSubfolder(L[n].Key, x, f[j].k)})
           /\ \A n \in Counted(di) :
                 Below(L[n].Key, x) =>
                    LET segs == Split(SubSeq(L[n].Key, Len(x) + 2, Len(L[n].Key)), "/")
                    IN Len(segs) > 1 => HasKey(f, segs[1])

----------------------------------------------------------------------------
(* The run of main, stated from the listings *)

\* every page of dataset i carries contents: the pagination ends normally
Completes(i) == \A k \in 1..Len(bucket[i]) : bucket[i][k].kind = "contents"

\* the listing of dataset i raises during pagination
Raises(i) ==
    \E k \in 1..Len(bucket[i]) :
        /\ bucket[i][k].kind = "raise"
        /\ \A j \in 1..(k - 1) : bucket[i][j].kind = "contents"

\* the listing of dataset i succeeds and yields no objects at all
Empty(i) ==
    /\ \A k \in 1..Len(bucket[i]) : bucket[i][k].kind = "nocontents"
    /\ Listed(i) = <<>>

Configured == 1..Len(datasets)

InAudits(i) == \E j \in 1..Len(out.audits) : out.audits[j].dataset = datasets[i]
InIssues(i) == \E j \in 1..Len(out.issues) : out.issues[j].dataset = datasets[i]

RECURSIVE FilesOf(_)
FilesOf(S) ==
    IF S = {} THEN 0
    ELSE LET i == CHOOSE m \in S : TRUE IN Cardinality(Counted(i)) + FilesOf(S \ {i})

RECURSIVE RoundedSizeOf(_)
RoundedSizeOf(S) ==
    IF S = {} THEN 0
    ELSE LET i == CHOOSE m \in S : TRUE
         IN RoundGB(SizeOf(Listed(i), Counted(i))) + RoundedSizeOf(S \ {i})

----------------------------------------------------------------------------
(* C2: when the listing of a dataset raises during pagination, audit_dataset *)
(* returns None for it and main goes on to the next dataset (after the last  *)
(* one, to the write step) with the audits and issues as they were; in the   *)
(* written document the dataset is in neither the audits nor the issues and  *)
(* adds nothing to total_datasets and total_files, while every dataset whose *)
(* pagination ends normally, also a later one, has been audited into it.     *)
C2_RaiseState ==
    /\ (pc = "returned" /\ Raises(di)) => audit_result = None
    /\ pc = "done" =>
         /\ out # None
         /\ \A i \in Configured : Raises(i) => ~InAudits(i) /\ ~InIssues(i)
         /\ \A i \in Configured : Completes(i) => InAudits(i)
         /\ out.summary.total_datasets = Cardinality({i \in Configured : Completes(i)})
         /\ out.summary.total_files = FilesOf({i \in Configured : Completes(i)})

C2_RaiseStep ==
    /\ (pc = "paginate" /\ page_no <= Len(bucket[di]) /\ Page.kind = "raise")
          => (pc' = "returned" /\ audit_result' = None)
    /\ (pc = "returned" /\ Raises(di))
          => (pc' = "main" /\ di' = di + 1 /\ UNCHANGED <<all_audits, all_issues>>)
    /\ (pc = "main" /\ di > Len(datasets)) => pc' = "done"

\* C2: a raised listing yields None, leaves the document without the dataset,
\* and the loop goes on to the next dataset and to the write step
C2_RaiseSkipsDataset == []C2_RaiseState /\ [][C2_RaiseStep]_vars

\* the first dataset raised, the second one was audited and the document written
C2_Witness ==
    /\ pc = "done"
    /\ Raises(1)
    /\ Completes(2)
    /\ Len(out.audits) = 1
    /\ out.audits[1].dataset = datasets[2]

----------------------------------------------------------------------------
(* C4: when the listing of a dataset succeeds and yields no objects,        *)
(* audit_dataset returns None; the dataset is in neither the audits nor the *)
(* issues of the written document, and the three summary aggregates are     *)
(* taken over the datasets whose pagination ended normally only.            *)
C4_EmptyListingExcluded ==
    /\ (pc = "returned" /\ Empty(di)) => audit_result = None
    /\ pc = "done" =>
         /\ \A i \in Configured : Empty(i) => ~InAudits(i) /\ ~InIssues(i)
         /\ Len(out.audits) = Cardinality({i \in Configured : ~Empty(i) /\ ~Raises(i) /\ Completes(i)})
         /\ out.summary.total_datasets = Len(out.audits)
         /\ out.summary.total_files = FilesOf({i \in Configured : Completes(i)})
         /\ out.summary.total_size_gb = RoundedSizeOf({i \in Configured : Completes(i)})

\* the first dataset was empty, the second one was audited and the document written
C4_Witness ==
    /\ pc = "done"
    /\ Empty(1)
    /\ Completes(2)
    /\ Len(out.audits) = 1
    /\ out.summary.total_datasets = 1

----------------------------------------------------------------------------
(* check_standardization, stated from the folder names *)

\* check_standardization has been applied to audit_result
Checked == pc = "checked"

FolderNames == Keys(audit_result.folders)

\* token occurs in name, letter case ignored
ContainsCI(name, token) ==
    \E i \in 0..(Len(name) - Len(token)) :
        \A j \in 1..Len(token) : LowerChar(name[i + j]) = token[j]

AnyContains(token) ==
    LET names == FolderNames
    IN \E n \in 1..Len(names) : ContainsCI(names[n], token)

HasKind(kind) == \E i \in 1..Len(issues) : issues[i].kind = kind

Rank(kind) ==
    CASE kind = "missing_train_test" -> 1
      [] kind = "missing_real_fake" -> 2
      [] kind = "too_many_folders" -> 3
      [] kind = "non_standard_folders" -> 4
      [] OTHER -> 0

----------------------------------------------------------------------------
(* C5: the issues come in the order train/test, real/fake, too many        *)
(* folders, non-standard folders: every issue is one of the four kinds and *)
(* the kinds strictly ascend in that order, so each appears at most once.  *)
C5_FixedIssueOrder ==
    Checked =>
        /\ \A i \in 1..Len(issues) : Rank(issues[i].kind) \in 1..4
        /\ \A i, j \in 1..Len(issues) :
              i < j => Rank(issues[i].kind) < Rank(issues[j].kind)

\* all four issues reported at once
C5_Witness == Checked /\ Len(issues) = 4

----------------------------------------------------------------------------
(* C6: "missing train/test split" is reported exactly when no folder name  *)
(* contains train or test, "missing real/fake labels" exactly when none    *)
(* contains real or fake, letter case ignored; for no folders at all both  *)
(* are reported and no non-standard-folders issue is.                      *)
C6_MissingSplitAndLabels ==
    Checked =>
        /\ HasKind("missing_train_test") <=> (~AnyContains(TRAIN) /\ ~AnyContains(TEST))
        /\ HasKind("missing_real_fake") <=> (~AnyContains(REAL) /\ ~AnyContains(FAKE))
        /\ FolderNames = <<>> =>
              /\ HasKind("missing_train_test")
              /\ HasKind("missing_real_fake")
              /\ ~HasKind("non_standard_folders")

\* the empty folder dict, checked
C6_Witness == Checked /\ FolderNames = <<>> /\ Len(issues) = 2

----------------------------------------------------------------------------
(* C7 *)

\* the too-many issue is there exactly when there are more than 10 folders,
\* and carries their number
TooManyRule ==
    /\ HasKind("too_many_folders") <=> Len(FolderNames) > 10
    /\ \A i \in 1..Len(issues) :
          issues[i].kind = "too_many_folders" => issues[i].n = Len(FolderNames)

\* 11 folders, each containing "train"
ElevenTrainFolders ==
    LET names == FolderNames
    IN /\ Len(names) = 11
       /\ \A n \in 1..Len(names) : ContainsCI(names[n], TRAIN)

(* C7 as amended: the too-many issue appears exactly when the number of    *)
(* folders exceeds 10 and carries that number; for 11 folders that all     *)
(* contain "train" it is reported with 11 and "missing train/test split"   *)
(* is not, while "missing real/fake labels" is reported unless one of the  *)
(* names contains real or fake.                                            *)
C7_TooManyFolders ==
    Checked =>
        /\ TooManyRule
        /\ ElevenTrainFolders =>
              /\ \E i \in 1..Len(issues) :
                    issues[i].kind = "too_many_folders" /\ issues[i].n = 11
              /\ ~HasKind("missing_train_test")
              /\ HasKind("missing_real_fake") <=> (~AnyContains(REAL) /\ ~AnyContains(FAKE))

\* C7 as claimed: for 11 folders that all contain "train" neither the
\* train/test nor the real/fake issue is reported
C7_Original ==
    Checked =>
        /\ TooManyRule
        /\ ElevenTrainFolders =>
              /\ \E i \in 1..Len(issues) :
                    issues[i].kind = "too_many_folders" /\ issues[i].n = 11
              /\ ~HasKind("missing_train_test")
              /\ ~HasKind("missing_real_fake")

\* 11 train folders checked: too many, and the real/fake labels are missing
C7_Witness ==
    /\ Checked
    /\ ElevenTrainFolders
    /\ HasKind("too_many_folders")
    /\ HasKind("missing_real_fake")

----------------------------------------------------------------------------
(* C8 *)

RecognisedTokens ==
    { <<"t","r","a","i","n">>, <<"t","e","s","t">>, <<"r","e","a","l">>,
      <<"f","a","k","e">>, <<"v","a","l">>, <<"m","e","t","a","d","a","t","a">>,
      <<"a","n","n","o","t","a","t","i","o","n">> }

\* the positions of the folder names that contain none of the tokens
Unrecognised ==
    LET names == FolderNames
    IN {n \in 1..Len(names) : \A t \in RecognisedTokens : ~ContainsCI(names[n], t)}

EXTRA_JUNK == <<"e","x","t","r","a","_","j","u","n","k">>

(* C8: a non-standard-folders issue is reported exactly when some folder   *)
(* name contains none of train, test, real, fake, val, metadata,           *)
(* annotation (letter case ignored); it lists the first 5 such names, or   *)
(* all of them when fewer, in the order of the folder dict.  For the       *)
(* folders train, test and extra_junk the real/fake issue is reported, the *)
(* train/test issue is not, and extra_junk is listed.                      *)
C8_NonStandardFolders ==
    Checked =>
        LET names == FolderNames
            U == Unrecognised
            listed == IF Cardinality(U) < 5 THEN Cardinality(U) ELSE 5
        IN /\ HasKind("non_standard_folders") <=> U # {}
           /\ \A i \in 1..Len(issues) :
                 issues[i].kind = "non_standard_folders" =>
                    /\ Len(issues[i].names) = listed
                    /\ \A j \in 1..listed :
                          \E n \in U :
                             /\ Cardinality({h \in U : h < n}) = j - 1
                             /\ issues[i].names[j] = names[n]
           /\ {names[n] : n \in 1..Len(names)} = {TRAIN, TEST, EXTRA_JUNK} =>
                 /\ HasKind("missing_real_fake")
                 /\ ~HasKind("missing_train_test")
                 /\ \E i \in 1..Len(issues) :
                       issues[i].kind = "non_standard_folders"
                          /\ issues[i].names = <<EXTRA_JUNK>>

\* more than 5 unrecognised folders, of which the issue lists 5
C8_Witness ==
    /\ Checked
    /\ Cardinality(Unrecognised) > 5
    /\ \E i \in 1..Len(issues) :
          issues[i].kind = "non_standard_folders" /\ Len(issues[i].names) = 5

----------------------------------------------------------------------------
(* C11 *)

\* the position of prefix x in the configured list
IndexOf(x) == CHOOSE i \in 1..Len(datasets) : datasets[i] = x

\* the entries of a list (audits or issue entries) name configured datasets,
\* in the configured order, none twice
InConfiguredOrder(entries) ==
    /\ \A j \in 1..Len(entries) : \E i \in 1..Len(datasets) : datasets[i] = entries[j].dataset
    /\ \A j, k \in 1..Len(entries) :
          j < k => IndexOf(entries[j].dataset) < IndexOf(entries[k].dataset)

\* the folder dict gives check_standardization nothing to report: some name
\* contains train or test, some name contains real or fake, there are at most
\* 10 names, and every name contains a recognised token
NothingToReport(folders) ==
    LET names == Keys(folders)
        Some(t) == \E n \in 1..Len(names) : ContainsCI(names[n], t)
    IN /\ Some(TRAIN) \/ Some(TEST)
       /\ Some(REAL) \/ Some(FAKE)
       /\ Len(names) <= 10
       /\ \A n \in 1..Len(names) : \E t \in RecognisedTokens : ContainsCI(names[n], t)

C11_State ==
    /\ InConfiguredOrder(all_audits)
    /\ InConfiguredOrder(all_issues)
    /\ \A j \in 1..Len(all_issues) :
          /\ all_issues[j].issues # <<>>
          /\ \E k \in 1..Len(all_audits) :
                /\ all_audits[k].dataset = all_issues[j].dataset
                /\ ~NothingToReport(all_audits[k].folders)
    /\ \A k \in 1..Len(all_audits) : IndexOf(all_audits[k].dataset) < di
    /\ pc = "done" =>
          /\ out.audits = all_audits /\ out.issues = all_issues
          /\ \A i \in Configured :
                /\ InAudits(i) <=> Completes(i)
                /\ InIssues(i) <=>
                      \E k \in 1..Len(out.audits) :
                         /\ out.audits[k].dataset = datasets[i]
                         /\ ~NothingToReport(out.audits[k].folders)

C11_Step ==
    /\ di' # di => (pc = "returned" /\ pc' = "main" /\ di' = di + 1)
    /\ pc # "returned" => UNCHANGED <<all_audits, all_issues>>
    /\ pc = "returned" =>
          /\ all_audits' # all_audits <=> audit_result # None
          /\ all_audits' # all_audits =>
                all_audits' = Append(all_audits, audit_result)
                   /\ audit_result.dataset = datasets[di]
          /\ all_issues' # all_issues <=> (audit_result # None /\ issues' # <<>>)
          /\ all_issues' # all_issues =>
                all_issues' = Append(all_issues, [dataset |-> datasets[di], issues |-> issues'])

\* C11: an issue entry is recorded for a dataset exactly when its audit
\* result is not None and check_standardization returned a non-empty list;
\* every dataset of the issues is in the audits, neither list names a dataset
\* twice, and both keep the configured order, one dataset being finished
\* before the next is begun
C11_IssuesFollowAudits == []C11_State /\ [][C11_Step]_vars

\* both datasets audited, the first with nothing to report and the second
\* with an issue entry
C11_Witness ==
    /\ pc = "done"
    /\ Len(out.audits) = 2
    /\ Len(out.issues) = 1
    /\ out.issues[1].dataset = datasets[2]
    /\ NothingToReport(out.audits[1].folders)

----------------------------------------------------------------------------
(* C12 *)

\* the bytes of the counted objects of the datasets of S, added up
RECURSIVE BytesOf(_)
BytesOf(S) ==
    IF S = {} THEN 0
    ELSE LET i == CHOOSE m \in S : TRUE
         IN SizeOf(Listed(i), Counted(i)) + BytesOf(S \ {i})

\* the datasets whose audit is in the written document
Audited == {i \in Configured : InAudits(i)}

(* C12 as claimed: the summary size of the written document is the byte     *)
(* totals of the audited datasets added up, divided once by 1024^3 and      *)
(* rounded to two decimals.                                                 *)
C12_Original ==
    pc = "done" => out.summary.total_size_gb = RoundGB(BytesOf(Audited))

----------------------------------------------------------------------------
(* C13 *)

\* the keys of the counted (non-marker) objects of dataset i, in the order
\* the pages list them
CountedKeys(i) ==
    LET L == Listed(i)
        C == Counted(i)
    IN [j \in 1..Cardinality(C) |->
          L[CHOOSE n \in C : Cardinality({h \in C : h < n}) = j - 1].Key]

IsPrefixOf(a, b) == Len(a) <= Len(b) /\ SubSeq(b, 1, Len(a)) = a

C13_State ==
    /\ pc \in {"paginate", "objects", "returned"} =>
          /\ Len(sample_files) <= 10
          /\ Len(sample_files) = (IF total_files < 10 THEN total_files ELSE 10)
          /\ IsPrefixOf(sample_files, CountedKeys(di))
    /\ Returned =>
          LET keys == CountedKeys(di)
              n == IF Len(keys) < 10 THEN Len(keys) ELSE 10
          IN /\ audit_result.total_files = Len(keys)
             /\ audit_result.samples = SubSeq(keys, 1, n)

C13_Step ==
    pc = "objects" =>
        /\ IsPrefixOf(sample_files, sample_files')
        /\ Len(sample_files') <= Len(sample_files) + 1

\* C13: the samples of a result are the first min(10, total_files) counted
\* keys in the order of the listing across its pages; there are never more
\* than 10, and a key once collected keeps its place
C13_FirstTenSamples == []C13_State /\ [][C13_Step]_vars

\* a result over more than 10 counted keys on several pages, listed after a marker
C13_Witness ==
    /\ Returned
    /\ audit_result.total_files > 10
    /\ Len(audit_result.samples) = 10
    /\ Len(bucket[di]) >= 2
    /\ Listed(di)[1].Key \in {datasets[di], datasets[di] \o <<"/">>}

----------------------------------------------------------------------------
(* C14 *)

\* no request of the pagination of dataset i fails
NeverRaises(i) == \A k \in 1..Len(bucket[i]) : bucket[i][k].kind # "raise"

\* some page of dataset i carries objects
SomePageHasObjects(i) ==
    \E k \in 1..Len(bucket[i]) :
        bucket[i][k].kind = "contents" /\ bucket[i][k].Contents # <<>>

(* C14 as claimed: audit_dataset returns None only when the pagination      *)
(* raised or no page carried an object; when no request fails and some page *)
(* carries objects, also when a later page has no contents, the result is   *)
(* not None and counts the non-marker objects of all pages; and a result    *)
(* that is not None has total_files >= 1.                                   *)
C14_Original ==
    pc = "returned" =>
        /\ audit_result = None => (~NeverRaises(di) \/ ~SomePageHasObjects(di))
        /\ (NeverRaises(di) /\ SomePageHasObjects(di)) =>
              /\ audit_result # None
              /\ audit_result.total_files = Cardinality(Counted(di))
              /\ total_size = SizeOf(Listed(di), Counted(di))
        /\ audit_result # None => audit_result.total_files >= 1

====
